---- MODULE Spec2Model ----
(***************************************************************************)
(* Model of the AI marketing agent: the CampaignAgent of claude_agent.py   *)
(* (Parse / Mock / Fallback strategies), the AgentMemoryStore of           *)
(* schemas.py and the HTTP handlers of main_app.py.                        *)
(*                                                                         *)
(* Strings built by f-strings are modelled as sequences of their parts     *)
(* (literal pieces and interpolated values), so that "contains" is a       *)
(* contiguous-subsequence test.  Time is the wall clock in whole seconds,  *)
(* the resolution of strftime('%Y%m%d_%H%M%S').  A call that may raise     *)
(* returns a tagged result: [ok |-> TRUE, value |-> v] or                  *)
(* [ok |-> FALSE, error |-> message].                                      *)
(***************************************************************************)
EXTENDS Integers, Sequences, FiniteSets, TLC

\* ------------------------------------------------------------------ bounds
MaxTime == 1       \* the clock runs over 0..MaxTime
MaxCalls == 2      \* invocations of process_campaign_brief per behaviour
NumKeys == 5       \* identifiers the direct store calls use
MaxLimit == 6      \* the direct list calls ask for 0..MaxLimit contexts

\* ----------------------------------------------------------------- helpers
None == "None"

\* an unset context_id
NoContextId == <<>>

\* what a dict lookup gives for a key that is not there
Absent == [absent |-> TRUE]

Min(a, b) == IF a < b THEN a ELSE b

Ok(v) == [ok |-> TRUE, value |-> v]

Err(msg) == [ok |-> FALSE, error |-> msg]

\* sub occurs in s as a contiguous run of parts
Contains(s, sub) ==
    \E i \in 0..(Len(s) - Len(sub)) :
        \A j \in 1..Len(sub) : s[i + j] = sub[j]

\* ------------------------------------------------------------------ briefs
CampaignIds == {"CAMP_A", "CAMP_B"}

MakeBrief(cid, company, ctype) ==
    [campaign_id |-> cid, company_name |-> company, campaign_type |-> ctype,
     target_audience |-> "developers", key_message |-> "save time",
     brand_voice |-> "bold"]

\* the valid briefs the calls and requests carry
Briefs ==
    {MakeBrief("CAMP_A", "Acme", "product_launch"),
     MakeBrief("CAMP_B", "Bolt", "webinar")}

\* ------------------------------------------------- brand_voice validation
\* In this part a brand_voice is the sequence of its characters.
\* the characters str.strip() removes from both ends
Whitespace == {" ", "\t", "\n"}

RECURSIVE LStrip(_)
LStrip(s) ==
    IF s = <<>> THEN s
    ELSE IF Head(s) \in Whitespace THEN LStrip(Tail(s)) ELSE s

RECURSIVE RStrip(_)
RStrip(s) ==
    IF s = <<>> THEN s
    ELSE IF s[Len(s)] \in Whitespace THEN RStrip(SubSeq(s, 1, Len(s) - 1)) ELSE s

\* v.strip()
Strip(s) == RStrip(LStrip(s))

\* a validator that measures and returns the value as it was sent
ValidateBrandVoice_NoStrip(v) ==
    IF Len(v) < 3
    THEN Err(<<"Brand voice must be at least 3 characters">>)
    ELSE Ok(v)

\* CampaignBrief.validate_brand_voice, schemas.py:56-61
ValidateBrandVoice(v) ==
    IF Len(Strip(v)) < 3
    THEN Err(<<"Brand voice must be at least 3 characters">>)
    ELSE Ok(Strip(v))

\* CampaignBrief(**data): the validators run, the brief holds what they return
NewCampaignBrief(data) ==
    LET voice == ValidateBrandVoice(data.brand_voice)
    IN  IF voice.ok
        THEN Ok([data EXCEPT !.brand_voice = voice.value])
        ELSE voice

\* the brand_voice values the request bodies carry
RawVoices ==
    {<<>>, <<" ">>, <<" ", "\t", " ">>, <<"a">>, <<"a", "b">>,
     <<" ", "a", "b", " ">>, <<"a", "b", "\n", " ">>,
     <<"a", "b", "c">>, <<" ", "a", "b", "c", "\n">>, <<"a", " ", "c">>,
     <<"a", "b", "c", "d">>}

\* the body of a request: the fields of a brief, brand_voice as sent
RawBrief(voice) ==
    [MakeBrief("CAMP_A", "Acme", "product_launch") EXCEPT !.brand_voice = voice]

\* --------------------------------------------------------------- responses
EmailCopy(subject, body) == [subject_line |-> subject, body_text |-> body]

AgentResponse(cid, strategy, post, email, image, notes, t) ==
    [campaign_id |-> cid, context_id |-> NoContextId, strategy_summary |-> strategy,
     post_text |-> post, email_copy |-> email, image_prompt |-> image,
     agent_notes |-> notes, generated_at |-> t, confidence_score |-> None]

\* a Mock response whose notes carry the time of generation
GenerateMockResponse_Timestamped(brief, t) ==
    AgentResponse(brief.campaign_id, <<"Mock strategy for ", brief.company_name>>,
                  <<"Exciting news from ", brief.company_name>>,
                  EmailCopy(<<"Don't Miss This: ", brief.key_message>>,
                            <<"Dear Valued Customer, ", brief.key_message>>),
                  <<"Professional marketing image for ", brief.company_name>>,
                  <<"MOCK RESPONSE generated at ", t>>, t)

GenerateMockResponse(brief, t) ==
    AgentResponse(
        brief.campaign_id,
        <<"Mock strategy for ", brief.company_name, "'s ", brief.campaign_type,
          " campaign. The strategy focuses on ", brief.target_audience,
          " with emphasis on ", brief.key_message, ".">>,
        <<"Exciting news from ", brief.company_name, "! ", brief.key_message,
          " Perfect for ", brief.target_audience, ". #Innovation #MockPost">>,
        EmailCopy(<<"Don't Miss This: ", brief.key_message>>,
                  <<"Dear Valued Customer, ", brief.key_message,
                    " This mock email copy is generated for ", brief.company_name,
                    "'s ", brief.campaign_type, " campaign. The ",
                    brief.company_name, " Team">>),
        <<"Professional marketing image for ", brief.company_name, ", showing ",
          brief.key_message, ", mood: ", brief.brand_voice,
          ", target audience: ", brief.target_audience>>,
        <<"MOCK RESPONSE: placeholder for the ", brief.campaign_type,
          " campaign for ", brief.company_name, ".">>,
        t)

\* notes that leave the failure reason out
FallbackNotes_Generic(error_message) ==
    <<"FALLBACK RESPONSE: Agent error. Manual review required.">>

FallbackNotes(error_message) ==
    <<"FALLBACK RESPONSE: Agent error - ">> \o error_message
        \o <<". Manual review required.">>

\* a Fallback response that takes the company name for the campaign_id
GenerateFallbackResponse_WrongId(brief, error_message, t) ==
    AgentResponse(brief.company_name, <<"Error processing campaign brief.">>,
                  <<"Updates coming soon from ", brief.company_name>>,
                  EmailCopy(<<"Important Update from ", brief.company_name>>,
                            <<"Hello, ", brief.company_name, " Team">>),
                  <<"Simple, professional image for ", brief.company_name>>,
                  FallbackNotes(error_message), t)

GenerateFallbackResponse(brief, error_message, t) ==
    AgentResponse(
        brief.campaign_id,
        <<"Error processing campaign brief. Fallback content for ",
          brief.company_name, "'s ", brief.campaign_type, " campaign.">>,
        <<"Updates coming soon from ", brief.company_name, "! Stay tuned. #",
          brief.company_name>>,
        EmailCopy(<<"Important Update from ", brief.company_name>>,
                  <<"Hello, we will share more details soon. ",
                    brief.company_name, " Team">>),
        <<"Simple, professional image for ", brief.company_name,
          ", clean design, brand colors">>,
        FallbackNotes(error_message),
        t)

\* ------------------------------------------------------- generation client
\* claude_agent.py:194
RequiredFields ==
    <<"strategy_summary", "post_text", "email_copy", "image_prompt", "agent_notes">>

RequiredSet == {RequiredFields[i] : i \in DOMAIN RequiredFields}

\* The raw text of a reply: not JSON at all, JSON that is no object (a number),
\* or a JSON object with the given keys; valid says whether the values fit
\* the AgentResponse schema (email_copy an object with subject_line and
\* body_text, the others strings).
RawText(kind, keys, valid) == [kind |-> kind, keys |-> keys, valid |-> valid]

\* all five keys, all five and one more, one of the five missing, none
JsonKeySets ==
    {RequiredSet, RequiredSet \cup {"extra"}, {}}
        \cup {RequiredSet \ {k} : k \in RequiredSet}

RawTexts ==
    {RawText("notjson", {}, FALSE), RawText("scalar", {}, FALSE),
     RawText("object", RequiredSet, FALSE)}
        \cup {RawText("object", K, TRUE) : K \in JsonKeySets}

ErrorMessages == {"Connection error", "rate_limit_error"}

\* what the provider does with one messages.create call
NoText == RawText("none", {}, FALSE)

ApiReturns(text) == [raises |-> FALSE, text |-> text, message |-> None]

ApiRaises(m) == [raises |-> TRUE, text |-> NoText, message |-> m]

\* no call is made
NoApi == [raises |-> FALSE, text |-> NoText, message |-> None]

ApiBehaviours ==
    {ApiReturns(x) : x \in RawTexts} \cup {ApiRaises(m) : m \in ErrorMessages}

\* str(e) of the exception the provider raised
ErrorText(m) == <<m>>

\* the error is logged and re-raised unchanged
CallClaudeApi(api) ==
    IF api.raises THEN Err(ErrorText(api.message)) ELSE Ok(api.text)

\* the value the reply gives for a key
GeneratedValue(key) ==
    IF key = "email_copy"
    THEN EmailCopy(<<"claude:subject_line">>, <<"claude:body_text">>)
    ELSE <<"claude:", key>>

\* the first required field, in list order, that the object lacks (0: none)
FirstMissing(keys) ==
    LET missing == {i \in DOMAIN RequiredFields : RequiredFields[i] \notin keys}
    IN  IF missing = {} THEN 0
        ELSE CHOOSE i \in missing : \A j \in missing : i <= j

\* a parser that checks only that the reply is JSON
ParseClaudeResponse_NoFieldCheck(claude_response, brief, t) ==
    IF claude_response.kind = "notjson"
    THEN Err(<<"Claude response was not valid JSON">>)
    ELSE Ok(AgentResponse(brief.campaign_id,
                          GeneratedValue("strategy_summary"),
                          GeneratedValue("post_text"),
                          GeneratedValue("email_copy"),
                          GeneratedValue("image_prompt"),
                          GeneratedValue("agent_notes"),
                          t))

ParseClaudeResponse(claude_response, brief, t) ==
    IF claude_response.kind = "notjson"
    THEN Err(<<"Claude response was not valid JSON">>)
    ELSE IF claude_response.kind = "scalar"
    THEN Err(<<"argument of type 'int' is not iterable">>)
    ELSE IF FirstMissing(claude_response.keys) # 0
    THEN Err(<<"Missing required field: ",
               RequiredFields[FirstMissing(claude_response.keys)]>>)
    ELSE IF ~claude_response.valid
    THEN Err(<<"validation error for AgentResponse">>)
    ELSE Ok(AgentResponse(brief.campaign_id,
                          GeneratedValue("strategy_summary"),
                          GeneratedValue("post_text"),
                          GeneratedValue("email_copy"),
                          GeneratedValue("image_prompt"),
                          GeneratedValue("agent_notes"),
                          t))

\* the record block _log_interaction appends (its timestamp line left out);
\* a failed write is swallowed
LogEntry(brief) ==
    [campaign_id |-> brief.campaign_id, company_name |-> brief.company_name,
     campaign_type |-> brief.campaign_type, processing_status |-> "success"]

LogInteraction(brief, logOk) == IF logOk THEN <<LogEntry(brief)>> ELSE <<>>

\* One run of a strategy: what it returns or raises, the generation calls it
\* issued and the audit records it appended.
Run(strategy, result, calls, log) ==
    [strategy |-> strategy, result |-> result, calls |-> calls, log |-> log]

\* a body that issues the call a second time when the first one failed
TryBody_RetriesOnce(client, brief, api, logOk, t) ==
    IF ~client
    THEN Run("Mock", Ok(GenerateMockResponse(brief, t)), 0, <<>>)
    ELSE LET response == CallClaudeApi(api)
         IN  IF ~response.ok
             THEN Run("Parse", CallClaudeApi(api), 2, <<>>)
             ELSE LET agent_response ==
                          ParseClaudeResponse(response.value, brief, t)
                  IN  IF ~agent_response.ok
                      THEN Run("Parse", agent_response, 1, <<>>)
                      ELSE Run("Parse", agent_response, 1,
                               LogInteraction(brief, logOk))

\* a body in which a failed audit write is an error of the invocation
TryBody_LogFailureRaises(client, brief, api, logOk, t) ==
    IF ~client
    THEN Run("Mock", Ok(GenerateMockResponse(brief, t)), 0, <<>>)
    ELSE LET response == CallClaudeApi(api)
         IN  IF ~response.ok
             THEN Run("Parse", response, 1, <<>>)
             ELSE LET agent_response ==
                          ParseClaudeResponse(response.value, brief, t)
                  IN  IF ~agent_response.ok
                      THEN Run("Parse", agent_response, 1, <<>>)
                      ELSE IF logOk
                      THEN Run("Parse", agent_response, 1,
                               LogInteraction(brief, logOk))
                      ELSE Run("Parse", Err(<<"Failed to write log">>), 1, <<>>)

\* the body of the try block, claude_agent.py:94-113
TryBody(client, brief, api, logOk, t) ==
    IF ~client
    THEN Run("Mock", Ok(GenerateMockResponse(brief, t)), 0, <<>>)
    ELSE LET response == CallClaudeApi(api)
         IN  IF ~response.ok
             THEN Run("Parse", response, 1, <<>>)
             ELSE LET agent_response ==
                          ParseClaudeResponse(response.value, brief, t)
                  IN  IF ~agent_response.ok
                      THEN Run("Parse", agent_response, 1, <<>>)
                      ELSE Run("Parse", agent_response, 1,
                               LogInteraction(brief, logOk))

\* the except clause, claude_agent.py:115-119: any error of the body becomes
\* the Fallback response built from str(e)
ProcessCampaignBrief(client, brief, api, logOk, t) ==
    LET body == TryBody(client, brief, api, logOk, t)
    IN  IF body.result.ok
        THEN body
        ELSE Run("Fallback",
                 Ok(GenerateFallbackResponse(brief, body.result.error, t)),
                 body.calls, body.log)

\* ------------------------------------------------------------ memory store
\* AgentMemoryStore.contexts: a dict, kept as the sequence of its items in
\* insertion order
Item(context_id, context) == [key |-> context_id, value |-> context]

KeysOf(store) == {store[i].key : i \in DOMAIN store}

IndexOf(store, context_id) == CHOOSE i \in DOMAIN store : store[i].key = context_id

\* a store that, for a present key, takes over only the outputs of the new
\* context
StoreContext_Merges(store, context_id, context) ==
    IF context_id \in KeysOf(store)
    THEN [store EXCEPT ![IndexOf(store, context_id)].value.output_memory =
                           context.output_memory]
    ELSE Append(store, Item(context_id, context))

\* a store that keeps the first context stored under a key
StoreContext_KeepsFirst(store, context_id, context) ==
    IF context_id \in KeysOf(store)
    THEN store
    ELSE Append(store, Item(context_id, context))

\* self.contexts[context_id] = context: a present key keeps its place
StoreContext(store, context_id, context) ==
    IF context_id \in KeysOf(store)
    THEN [store EXCEPT ![IndexOf(store, context_id)].value = context]
    ELSE Append(store, Item(context_id, context))

\* self.contexts.get(context_id)
GetContext(store, context_id) ==
    IF context_id \in KeysOf(store)
    THEN store[IndexOf(store, context_id)].value
    ELSE Absent

\* list(limit): the contexts in insertion order, truncated to limit
ListContexts(store, limit) ==
    [i \in 1..Min(Len(store), limit) |-> store[i].value]

\* update_status(id, newStatus): false if the id is absent, otherwise the
\* status field alone is overwritten
UpdateStatus(store, context_id, new_status) ==
    IF context_id \in KeysOf(store)
    THEN [success |-> TRUE,
          store |-> [store EXCEPT
                        ![IndexOf(store, context_id)].value.status = new_status]]
    ELSE [success |-> FALSE, store |-> store]

\* delete(id): false if the id is absent, otherwise the entry is removed
DeleteContext(store, context_id) ==
    IF context_id \in KeysOf(store)
    THEN [success |-> TRUE,
          store |-> SelectSeq(store, LAMBDA it : it.key # context_id)]
    ELSE [success |-> FALSE, store |-> store]

\* MemoryContext.validate_status, run when a MemoryContext is constructed
AllowedStatuses == {"draft", "in_review", "approved", "published", "archived"}

\* f"campaign_{brief.campaign_id}_{now:%Y%m%d_%H%M%S}": the timestamp has a
\* fixed width, so the string determines the pair and the pair the string
MakeContextId(campaign_id, t) == <<"campaign", campaign_id, t>>

\* the MemoryContext process_campaign builds, main_app.py:71-91
MakeMemoryContext(context_id, brief, response, t) ==
    [context_id |-> context_id,
     agent_role |-> "Campaign Manager",
     input_data |-> brief,
     conversation_history |->
         <<[timestamp |-> t, action |-> "process_campaign",
            input |-> brief, output |-> response]>>,
     output_memory |->
         [latest_strategy |-> response.strategy_summary,
          latest_post |-> response.post_text,
          latest_email |-> response.email_copy,
          latest_image_prompt |-> response.image_prompt],
     reasoning_log |-> <<response.agent_notes>>,
     status |-> "draft",
     created_at |-> t,
     updated_at |-> t]

\* ------------------------------------------------------------------- state
VARIABLES
    clientAvail,  \* agent.client is not None (fixed at construction)
    now,          \* the wall clock, in seconds
    contexts,     \* memory_store.contexts
    auditLog,     \* the record blocks appended to the agent_logs file
    nCalls,       \* invocations of process_campaign_brief so far
    out,          \* the last direct call of process_campaign_brief and its run
    prev,         \* the direct call before it
    http,         \* the last HTTP request and its response
    ret,          \* the last direct call of a store method and its return
    inflight      \* the POST /campaign/process requests being handled

vars == <<clientAvail, now, contexts, auditLog, nCalls, out, prev, http, ret, inflight>>

\* no call or request yet
Nothing == [op |-> "none"]

Init ==
    /\ clientAvail \in BOOLEAN
    /\ now = 0
    /\ contexts = <<>>
    /\ auditLog = <<>>
    /\ nCalls = 0
    /\ out = Nothing
    /\ prev = Nothing
    /\ http = Nothing
    /\ ret = Nothing
    /\ inflight = <<>>

\* the clock advances between requests
Tick ==
    /\ now < MaxTime
    /\ now' = now + 1
    /\ UNCHANGED <<clientAvail, inflight, contexts, auditLog, nCalls, out, prev, http, ret>>

\* the generation client's behaviour matters only when there is a client
Behaviours(apis) == IF clientAvail THEN apis ELSE {NoApi}

\* whether the audit write succeeds matters only when the reply parses
LogOutcomes(brief, api) ==
    IF clientAvail /\ TryBody(TRUE, brief, api, TRUE, now).result.ok
    THEN BOOLEAN ELSE {TRUE}

\* --------------------------------------------------- the agent, called directly
\* what the caller keeps of a call: the brief and the response
Kept(call) ==
    IF call.op = "none" THEN call
    ELSE [op |-> call.op, brief |-> call.brief, response |-> call.run.result]

\* await agent.process_campaign_brief(brief)
AgentCall(brief, api, logOk) ==
    /\ nCalls < MaxCalls
    /\ LET run == ProcessCampaignBrief(clientAvail, brief, api, logOk, now)
       IN  /\ out' = [op |-> "process_campaign_brief", brief |-> brief,
                      api |-> api, logOk |-> logOk, run |-> run]
           /\ auditLog' = auditLog \o run.log
    /\ prev' = Kept(out)
    /\ nCalls' = nCalls + 1
    /\ UNCHANGED <<clientAvail, inflight, now, contexts, http, ret>>

CallAgent ==
    \E brief \in Briefs, api \in Behaviours(ApiBehaviours) :
        \E logOk \in LogOutcomes(brief, api) :
            AgentCall(brief, api, logOk)

NextAgent == CallAgent \/ Tick

SpecAgent == Init /\ [][NextAgent]_vars

\* ---------------------------------------------------------- HTTP handlers
\* the update endpoint accepting all that the model's validator accepts
ValidStatuses_AsValidator == AllowedStatuses

\* main_app.py:179
ValidStatuses == {"draft", "in_review", "approved", "published"}

\* main_app.py:146
DefaultLimit == 10

Response(code, body, store) == [code |-> code, body |-> body, store |-> store]

\* the body FastAPI sends for a raised HTTPException
HTTPException(detail) == [detail |-> <<detail>>]

\* POST /campaign/process, given the agent's run: main_app.py:64-102
HandleProcess(store, brief, run, t) ==
    IF ~run.result.ok
    THEN Response(500, [detail |-> <<"Agent processing failed: ">> \o run.result.error],
                  store)
    ELSE LET response == run.result.value
             context_id == MakeContextId(brief.campaign_id, t)
             memory_context == MakeMemoryContext(context_id, brief, response, t)
         IN  Response(200, [response EXCEPT !.context_id = context_id],
                      StoreContext(store, context_id, memory_context))

\* GET /memory/{context_id}: main_app.py:133-143
HandleGet(store, context_id) ==
    LET context == GetContext(store, context_id)
    IN  IF context = Absent
        THEN Response(404, HTTPException("Context not found"), store)
        ELSE Response(200, context, store)

Summary(context) ==
    [context_id |-> context.context_id, agent_role |-> context.agent_role,
     status |-> context.status, created_at |-> context.created_at,
     campaign_info |->
         [campaign_id |-> context.input_data.campaign_id,
          company_name |-> context.input_data.company_name,
          campaign_type |-> context.input_data.campaign_type]]

\* a handler that lists with the default limit whatever the query says
HandleList_IgnoresLimit(store, limit) ==
    LET listed == ListContexts(store, DefaultLimit)
        summaries == [i \in DOMAIN listed |-> Summary(listed[i])]
    IN  Response(200, [total_contexts |-> Len(summaries), contexts |-> summaries],
                 store)

\* GET /memory?limit=N: main_app.py:145-171
HandleList(store, limit) ==
    LET listed == ListContexts(store, limit)
        summaries == [i \in DOMAIN listed |-> Summary(listed[i])]
    IN  Response(200, [total_contexts |-> Len(summaries), contexts |-> summaries],
                 store)

\* a handler that writes the status before it validates it
HandleUpdateStatus_WriteFirst(store, context_id, new_status) ==
    LET updated == UpdateStatus(store, context_id, new_status)
    IN  IF new_status \notin ValidStatuses
        THEN Response(400, HTTPException("Invalid status"), updated.store)
        ELSE IF ~updated.success
        THEN Response(404, HTTPException("Context not found"), updated.store)
        ELSE Response(200, [status |-> "success", context_id |-> context_id,
                            new_status |-> new_status],
                      updated.store)

\* PUT /memory/{context_id}/status: main_app.py:173-190
HandleUpdateStatus(store, context_id, new_status) ==
    IF new_status \notin ValidStatuses
    THEN Response(400, HTTPException("Invalid status"), store)
    ELSE LET updated == UpdateStatus(store, context_id, new_status)
         IN  IF ~updated.success
             THEN Response(404, HTTPException("Context not found"), updated.store)
             ELSE Response(200, [status |-> "success", context_id |-> context_id,
                                 new_status |-> new_status],
                           updated.store)

\* a handler that does not look at what delete_context returned
HandleDelete_IgnoresResult(store, context_id) ==
    Response(200, [status |-> "success", message |-> "Context deleted"],
             DeleteContext(store, context_id).store)

\* DELETE /memory/{context_id}: main_app.py:192-202
HandleDelete(store, context_id) ==
    LET deleted == DeleteContext(store, context_id)
    IN  IF ~deleted.success
        THEN Response(404, HTTPException("Context not found"), deleted.store)
        ELSE Response(200, [status |-> "success", message |-> "Context deleted"],
                      deleted.store)

\* the ids, statuses and limits the requests carry
ContextIds == {MakeContextId(c, t) : c \in CampaignIds, t \in 0..MaxTime}

NewStatuses == AllowedStatuses \cup {"bogus"}

Limits == 0..MaxCalls \cup {DefaultLimit}

\* the replies of the generation client in the HTTP runs
HttpBehaviours ==
    {ApiReturns(RawText("object", RequiredSet, TRUE)),
     ApiReturns(RawText("notjson", {}, FALSE))}

\* what the client of the HTTP interface sees of a request
Served(op, response) == [op |-> op, code |-> response.code, body |-> response.body]

ProcessCampaign(brief, api, logOk) ==
    /\ nCalls < MaxCalls
    /\ LET run == ProcessCampaignBrief(clientAvail, brief, api, logOk, now)
           response == HandleProcess(contexts, brief, run, now)
       IN  /\ contexts' = response.store
           /\ auditLog' = auditLog \o run.log
           /\ http' = Served("process_campaign", response)
    /\ nCalls' = nCalls + 1
    /\ UNCHANGED <<clientAvail, inflight, now, out, prev, ret>>

GetMemory(context_id) ==
    LET response == HandleGet(contexts, context_id)
    IN  /\ http' = Served("get_context", response)
        /\ contexts' = response.store
        /\ UNCHANGED <<clientAvail, inflight, now, auditLog, nCalls, out, prev, ret>>

ListMemory(limit) ==
    LET response == HandleList(contexts, limit)
    IN  /\ http' = Served("list_contexts", response)
        /\ contexts' = response.store
        /\ UNCHANGED <<clientAvail, inflight, now, auditLog, nCalls, out, prev, ret>>

PutStatus(context_id, new_status) ==
    LET response == HandleUpdateStatus(contexts, context_id, new_status)
    IN  /\ http' = Served("update_context_status", response)
        /\ contexts' = response.store
        /\ UNCHANGED <<clientAvail, inflight, now, auditLog, nCalls, out, prev, ret>>

DeleteMemory(context_id) ==
    LET response == HandleDelete(contexts, context_id)
    IN  /\ http' = Served("delete_context", response)
        /\ contexts' = response.store
        /\ UNCHANGED <<clientAvail, inflight, now, auditLog, nCalls, out, prev, ret>>

PostCampaignProcess ==
    \E brief \in Briefs, api \in Behaviours(HttpBehaviours) :
        \E logOk \in LogOutcomes(brief, api) :
            ProcessCampaign(brief, api, logOk)

GetRequest == \E context_id \in ContextIds : GetMemory(context_id)

ListRequest == \E limit \in Limits : ListMemory(limit)

PutRequest ==
    \E context_id \in ContextIds, new_status \in NewStatuses :
        PutStatus(context_id, new_status)

DeleteRequest == \E context_id \in ContextIds : DeleteMemory(context_id)

Next ==
    \/ PostCampaignProcess
    \/ GetRequest
    \/ ListRequest
    \/ PutRequest
    \/ DeleteRequest
    \/ Tick

Spec == Init /\ [][Next]_vars

\* process requests only: no context is deleted
NextProcess == PostCampaignProcess \/ Tick

SpecProcess == Init /\ [][NextProcess]_vars

\* ------------------------------------------- the store, called directly
StoreKey(i) == MakeContextId("KEY", i)

StoreKeys == {StoreKey(i) : i \in 1..NumKeys}

\* a short AgentResponse, told from the others by its notes
SampleResponse(notes) ==
    AgentResponse("CAMP_A", <<"strategy">>, <<"post">>,
                  EmailCopy(<<"subject">>, <<"body">>), <<"image">>, <<notes>>, 0)

\* a MemoryContext as process_campaign builds it, for that response
SampleContext(i, notes) ==
    MakeMemoryContext(StoreKey(i), MakeBrief("CAMP_A", "Acme", "product_launch"),
                      SampleResponse(notes), 0)

\* the (key, context) pairs stored: every key with its own context, the first
\* key also with a second context
StoreInputs ==
    {<<StoreKey(i), SampleContext(i, "first")>> : i \in 1..NumKeys}
        \cup {<<StoreKey(1), SampleContext(1, "second")>>}

Returned(op, args, value) == [op |-> op, args |-> args, value |-> value]

\* memory_store.store_context(context_id, context)
StoreCall(context_id, context) ==
    /\ contexts' = StoreContext(contexts, context_id, context)
    /\ ret' = Returned("store_context", <<context_id, context>>, TRUE)
    /\ UNCHANGED <<clientAvail, inflight, now, auditLog, nCalls, out, prev, http>>

\* memory_store.get_context(context_id)
GetCall(context_id) ==
    /\ ret' = Returned("get_context", context_id, GetContext(contexts, context_id))
    /\ UNCHANGED <<clientAvail, inflight, now, contexts, auditLog, nCalls, out, prev, http>>

\* memory_store.list_contexts(limit)
ListCall(limit) ==
    /\ ret' = Returned("list_contexts", limit, ListContexts(contexts, limit))
    /\ UNCHANGED <<clientAvail, inflight, now, contexts, auditLog, nCalls, out, prev, http>>

\* memory_store.delete_context(context_id)
DeleteCall(context_id) ==
    LET deleted == DeleteContext(contexts, context_id)
    IN  /\ contexts' = deleted.store
        /\ ret' = Returned("delete_context", context_id, deleted.success)
        /\ UNCHANGED <<clientAvail, inflight, now, auditLog, nCalls, out, prev, http>>

StoreStep == \E input \in StoreInputs : StoreCall(input[1], input[2])

GetStep == \E context_id \in StoreKeys : GetCall(context_id)

ListStep == \E limit \in 0..MaxLimit : ListCall(limit)

DeleteStep == \E context_id \in StoreKeys : DeleteCall(context_id)

NextStore == StoreStep \/ GetStep \/ ListStep \/ DeleteStep

\* the store is used on its own: no agent is constructed with a credential
InitStore == Init /\ ~clientAvail

SpecStore == InitStore /\ [][NextStore]_vars

\* ------------------------------------------- request validation (FastAPI)
\* the reply of the generation client in these runs
WellFormed == ApiReturns(RawText("object", RequiredSet, TRUE))

\* POST /campaign/process with the raw body: the framework builds the
\* CampaignBrief of the handler's signature (main_app.py:54) and answers 422
\* without calling the handler when a validator raises
SubmitBrief(data, api, logOk) ==
    LET made == NewCampaignBrief(data)
    IN  /\ out' = [op |-> "CampaignBrief", data |-> data, result |-> made]
        /\ IF ~made.ok
           THEN /\ http' = Served("process_campaign",
                                  Response(422, [detail |-> made.error], contexts))
                /\ UNCHANGED <<contexts, auditLog, nCalls>>
           ELSE /\ nCalls < MaxCalls
                /\ LET run == ProcessCampaignBrief(clientAvail, made.value, api,
                                                   logOk, now)
                       response == HandleProcess(contexts, made.value, run, now)
                   IN  /\ contexts' = response.store
                       /\ auditLog' = auditLog \o run.log
                       /\ http' = Served("process_campaign", response)
                /\ nCalls' = nCalls + 1
        /\ UNCHANGED <<clientAvail, inflight, now, prev, ret>>

PostRawBrief ==
    \E voice \in RawVoices, api \in Behaviours({WellFormed}) :
        SubmitBrief(RawBrief(voice), api, TRUE)

NextValidate == PostRawBrief \/ Tick

SpecValidate == Init /\ [][NextValidate]_vars

\* ------------------------------------------------------- GET /agent/stats
\* the default of list_contexts(limit: int = ...): the signature is all the
\* source keeps of it; taken to be the default of the list endpoint
StoreDefaultLimit == DefaultLimit

\* counts[k] = counts.get(k, 0) + 1 over the keys of the listed contexts: a
\* dict from each key seen to the number of contexts with it
CountBy(keys) ==
    [k \in {keys[i] : i \in DOMAIN keys} |->
        Cardinality({i \in DOMAIN keys : keys[i] = k})]

StatusOf(context) == context.status

CampaignTypeOf(context) == context.input_data.campaign_type

\* GET /agent/stats: main_app.py:204-230; list_contexts() is called without
\* a limit
HandleStats(store) ==
    LET listed == ListContexts(store, StoreDefaultLimit)
    IN  Response(200,
                 [total_campaigns |-> Len(listed),
                  status_breakdown |->
                      CountBy([i \in DOMAIN listed |-> StatusOf(listed[i])]),
                  campaign_types |->
                      CountBy([i \in DOMAIN listed |-> CampaignTypeOf(listed[i])]),
                  agent_role |-> "Campaign Manager",
                  memory_store_health |-> "operational"],
                 store)

\* the contexts stored in these runs: a draft product launch or an approved
\* webinar
StatsKinds == {<<"draft", "product_launch">>, <<"approved", "webinar">>}

StatsContext(i, kind) ==
    [MakeMemoryContext(StoreKey(i), MakeBrief("CAMP_A", "Acme", kind[2]),
                       SampleResponse("first"), 0)
        EXCEPT !.status = kind[1]]

\* one context more than the default limit can be stored
StoreOneMore ==
    /\ Len(contexts) <= StoreDefaultLimit
    /\ \E kind \in StatsKinds :
           StoreCall(StoreKey(Len(contexts) + 1),
                     StatsContext(Len(contexts) + 1, kind))

AgentStats ==
    /\ http' = Served("get_agent_stats", HandleStats(contexts))
    /\ UNCHANGED <<clientAvail, inflight, now, contexts, auditLog, nCalls, out, prev, ret>>

NextStats == StoreOneMore \/ AgentStats

SpecStats == InitStore /\ [][NextStats]_vars

\* ------------------------------------------------- requests served together
\* A POST /campaign/process being handled, main_app.py:64-99: waiting at the
\* await of line 66 ("await"), or with its context_id and MemoryContext
\* built from the response and not yet stored ("built").  Everything but
\* memory_store is local to the request.
Pending(request, brief) ==
    [request |-> request, brief |-> brief, pc |-> "await",
     response |-> Nothing, context |-> Nothing]

RemoveAt(s, i) == SubSeq(s, 1, i - 1) \o SubSeq(s, i + 1, Len(s))

\* the request arrives and the handler awaits the agent
BeginProcess(brief) ==
    /\ nCalls < MaxCalls
    /\ inflight' = Append(inflight, Pending(nCalls + 1, brief))
    /\ nCalls' = nCalls + 1
    /\ UNCHANGED <<clientAvail, now, contexts, auditLog, out, prev, http, ret>>

\* the agent returns; lines 69-91 build the context from the response
ResumeProcess(i, api, logOk) ==
    /\ inflight[i].pc = "await"
    /\ LET brief == inflight[i].brief
           run == ProcessCampaignBrief(clientAvail, brief, api, logOk, now)
           context_id == MakeContextId(brief.campaign_id, now)
       IN  /\ auditLog' = auditLog \o run.log
           /\ IF run.result.ok
              THEN /\ inflight' =
                          [inflight EXCEPT
                              ![i].pc = "built",
                              ![i].response = run.result.value,
                              ![i].context =
                                  MakeMemoryContext(context_id, brief,
                                                    run.result.value, now)]
                   /\ http' = http
              ELSE /\ inflight' = RemoveAt(inflight, i)
                   /\ http' = [op |-> "process_campaign", code |-> 500,
                               body |-> [detail |-> <<"Agent processing failed: ">>
                                                        \o run.result.error],
                               request |-> inflight[i].request]
    /\ UNCHANGED <<clientAvail, now, contexts, nCalls, out, prev, ret>>

\* lines 94-99: the context is stored and the response sent
StoreProcess(i) ==
    /\ inflight[i].pc = "built"
    /\ LET context == inflight[i].context
       IN  /\ contexts' = StoreContext(contexts, context.context_id, context)
           /\ http' = [op |-> "process_campaign", code |-> 200,
                       body |-> [inflight[i].response EXCEPT
                                    !.context_id = context.context_id],
                       request |-> inflight[i].request]
    /\ inflight' = RemoveAt(inflight, i)
    /\ UNCHANGED <<clientAvail, now, auditLog, nCalls, out, prev, ret>>

BeginRequest == \E brief \in Briefs : BeginProcess(brief)

ResumeRequest ==
    \E i \in DOMAIN inflight, api \in Behaviours(HttpBehaviours) :
        \E logOk \in LogOutcomes(inflight[i].brief, api) :
            ResumeProcess(i, api, logOk)

StoreRequest == \E i \in DOMAIN inflight : StoreProcess(i)

NextConcurrent ==
    \/ BeginRequest
    \/ ResumeRequest
    \/ StoreRequest
    \/ PutRequest
    \/ DeleteRequest
    \/ Tick

SpecConcurrent == Init /\ [][NextConcurrent]_vars

\* -------------------------------------------------------- POST /mock/brief
\* the number of days main_app.py:126 adds to the day of the month
DeadlineDays == 14

\* the calendar dates datetime.now() may give: a leap and a common year
Years == {2024, 2025}

IsLeap(year) == (year % 4 = 0 /\ year % 100 # 0) \/ year % 400 = 0

DaysInMonth(year, month) ==
    IF month = 2 THEN (IF IsLeap(year) THEN 29 ELSE 28)
    ELSE IF month \in {4, 6, 9, 11} THEN 30 ELSE 31

Date(year, month, day) == [year |-> year, month |-> month, day |-> day]

Dates ==
    {date \in [year : Years, month : 1..12, day : 1..31] :
        date.day <= DaysInMonth(date.year, date.month)}

\* datetime.replace(day=...): ValueError when the month has no such day
ReplaceDay(date, day) ==
    IF day \in 1..DaysInMonth(date.year, date.month)
    THEN Ok([date EXCEPT !.day = day])
    ELSE Err(<<"day is out of range for month">>)

\* datetime.isoformat(), the date part
IsoFormat(date) == <<date.year, "-", date.month, "-", date.day>>

\* the body of the request: {campaign_type, company_name?}
MockBriefRequest(campaign_type, company_name) ==
    [campaign_type |-> campaign_type, company_name |-> company_name]

MockBriefRequests ==
    {MockBriefRequest("product_launch", "Acme"),
     MockBriefRequest("no_such_type", None)}

\* mock_data.json: the templates, keyed by campaign type
MockTemplates ==
    [product_launch |->
         [campaign_type |-> "product_launch", company_name |-> "TechStart Inc",
          brand_name |-> "TechStart"],
     brand_awareness |->
         [campaign_type |-> "brand_awareness", company_name |-> "GreenLife",
          brand_name |-> "GreenLife"]]

\* POST /mock/brief: main_app.py:104-131
CreateMockBriefAt(request, today, t) ==
    LET template ==
            IF request.campaign_type \in DOMAIN MockTemplates
            THEN MockTemplates[request.campaign_type]
            ELSE MockTemplates["product_launch"]
        company_name ==
            IF request.company_name # None
            THEN request.company_name ELSE template.company_name
        brand_name ==
            IF request.company_name # None
            THEN request.company_name ELSE template.brand_name
        deadline == ReplaceDay(today, today.day + DeadlineDays)
    IN  IF ~deadline.ok
        THEN Response(500,
                      [detail |-> <<"Mock brief creation failed: ">> \o deadline.error],
                      contexts)
        ELSE Response(200,
                      [status |-> "success",
                       brief |->
                           [campaign_type |-> template.campaign_type,
                            company_name |-> company_name,
                            brand_name |-> brand_name,
                            campaign_id |-> <<"mock_">> \o IsoFormat(today) \o <<t>>,
                            created_date |-> IsoFormat(today),
                            deadline |-> IsoFormat(deadline.value)]],
                      contexts)

CreateMockBrief(request, today) ==
    /\ http' = Served("create_mock_brief", CreateMockBriefAt(request, today, now))
    /\ out' = [op |-> "create_mock_brief", request |-> request, today |-> today]
    /\ UNCHANGED <<clientAvail, inflight, now, contexts, auditLog, nCalls, prev, ret>>

MockBriefStep ==
    \E request \in MockBriefRequests, today \in Dates :
        CreateMockBrief(request, today)

NextMock == MockBriefStep

SpecMock == Init /\ [][NextMock]_vars

\* ------------------------------------------------------------------ claims
Called == out.op = "process_campaign_brief"

\* C1: every direct call of process_campaign_brief, whatever the generation
\* client did and whichever strategy produced the response, returns (does
\* not raise) a response whose campaign_id is the brief's campaign_id.
C1_CampaignIdCopied ==
    Called =>
        /\ out.run.strategy \in {"Parse", "Mock", "Fallback"}
        /\ out.run.result.ok
        /\ out.run.result.value.campaign_id = out.brief.campaign_id

\* C1 witness: a Fallback response for the brief of campaign CAMP_B
C1_Witness ==
    /\ Called
    /\ out.run.strategy = "Fallback"
    /\ out.brief.campaign_id = "CAMP_B"
    /\ out.run.result.value.campaign_id = "CAMP_B"

\* the reply is text that is not JSON, or JSON without one of the five keys
Malformed(api) ==
    /\ ~api.raises
    /\ \/ api.text.kind = "notjson"
       \/ /\ api.text.kind \in {"scalar", "object"}
          /\ ~(RequiredSet \subseteq api.text.keys)

IsFallback(response) ==
    /\ response.agent_notes[1] = "FALLBACK RESPONSE: Agent error - "
    /\ response.agent_notes[Len(response.agent_notes)] = ". Manual review required."

\* C2: with a client, a reply that is not JSON or lacks a required key makes
\* the parser raise, process_campaign_brief returns the Fallback response
\* instead of raising, and POST /campaign/process answers 200 for that run.
C2_MalformedReplyFallsBack ==
    (Called /\ clientAvail /\ Malformed(out.api)) =>
        /\ ~ParseClaudeResponse(out.api.text, out.brief, now).ok
        /\ out.run.result.ok
        /\ out.run.strategy = "Fallback"
        /\ IsFallback(out.run.result.value)
        /\ HandleProcess(contexts, out.brief, out.run, now).code = 200

\* C2 witness: a JSON reply that lacks only agent_notes ended in Fallback
C2_Witness ==
    /\ Called
    /\ clientAvail
    /\ out.api.text.kind = "object"
    /\ out.api.text.keys = RequiredSet \ {"agent_notes"}
    /\ out.run.strategy = "Fallback"

\* C3: with a client, a generation call that raises with message m gives the
\* Fallback response, not an error, and its agent_notes contain m.
C3_FailureReasonInNotes ==
    (Called /\ clientAvail /\ out.api.raises) =>
        /\ out.run.result.ok
        /\ out.run.strategy = "Fallback"
        /\ IsFallback(out.run.result.value)
        /\ Contains(out.run.result.value.agent_notes, <<out.api.message>>)

\* C3 witness: the call raised "rate_limit_error" and a response came back
C3_Witness ==
    /\ Called
    /\ clientAvail
    /\ out.api.raises
    /\ out.api.message = "rate_limit_error"
    /\ out.run.result.ok

SameButGeneratedAt(r1, r2) ==
    [r1 EXCEPT !.generated_at = 0] = [r2 EXCEPT !.generated_at = 0]

\* C4: without a client every call takes the Mock strategy and issues no
\* generation call, and two calls with the same brief return responses that
\* agree in every field but generated_at.
C4_MockDeterministic ==
    (Called /\ ~clientAvail) =>
        /\ out.run.strategy = "Mock"
        /\ out.run.calls = 0
        /\ (prev.op = "process_campaign_brief" /\ prev.brief = out.brief) =>
               SameButGeneratedAt(prev.response.value, out.run.result.value)

\* C4 witness: the same brief was processed twice, at different times
C4_Witness ==
    /\ Called
    /\ ~clientAvail
    /\ prev.op = "process_campaign_brief"
    /\ prev.brief = out.brief
    /\ prev.response.value.generated_at # out.run.result.value.generated_at
    /\ out.run.strategy = "Mock"

\* C5: after N successful POST /campaign/process requests and no delete the
\* store holds N contexts, one per invocation.
C5_OneContextPerCall == Len(contexts) = nCalls

FourStatuses == {"draft", "in_review", "approved", "published"}

\* C6: whatever requests were served, every stored context has a status
\* among draft, in_review, approved and published, never archived.
C6_StoredStatusValid ==
    \A i \in DOMAIN contexts :
        /\ contexts[i].value.status \in FourStatuses
        /\ contexts[i].value.status # "archived"

\* C6 witness: a status update was served and a stored context is published
C6_Witness ==
    /\ http.op = "update_context_status"
    /\ http.code = 200
    /\ \E i \in DOMAIN contexts : contexts[i].value.status = "published"

\* C7: a status update with a new_status outside the four values is answered
\* 400 and leaves the store as it was, for present and absent ids alike, so
\* every id still fetches what it fetched before.
C7_InvalidStatusRejected ==
    [][\A context_id \in ContextIds, new_status \in NewStatuses \ FourStatuses :
           (http'.op = "update_context_status"
                /\ PutStatus(context_id, new_status)) =>
               /\ http'.code = 400
               /\ contexts' = contexts
               /\ \A id \in ContextIds :
                      HandleGet(contexts', id).body = HandleGet(contexts, id).body]_vars

\* C7 witness: an update was rejected while a stored context is approved
C7_Witness ==
    /\ http.op = "update_context_status"
    /\ http.code = 400
    /\ \E i \in DOMAIN contexts : contexts[i].value.status = "approved"

\* C8: DELETE of an absent id answers 404 and leaves the store as it was;
\* DELETE of a present id removes that entry alone, the store is one shorter,
\* every other id fetches what it fetched before, and the id is then absent.
C8_DeleteRemovesExactlyOne ==
    [][\A context_id \in ContextIds :
           (http'.op = "delete_context" /\ DeleteMemory(context_id)) =>
               IF context_id \notin KeysOf(contexts)
               THEN http'.code = 404 /\ contexts' = contexts
               ELSE /\ http'.code = 200
                    /\ Len(contexts') = Len(contexts) - 1
                    /\ KeysOf(contexts') = KeysOf(contexts) \ {context_id}
                    /\ \A id \in KeysOf(contexts') :
                           GetContext(contexts', id) = GetContext(contexts, id)
                    /\ GetContext(contexts', context_id) = Absent
                    /\ HandleGet(contexts', context_id).code = 404]_vars

\* C8 witness: a delete succeeded and another context is still stored
C8_Witness ==
    /\ http.op = "delete_context"
    /\ http.code = 200
    /\ Len(contexts) >= 1

\* C9: a get that directly follows a store of the same id returns the stored
\* context unchanged; a store under a present id replaces its context and
\* adds no entry; a get of an id that is not stored (never stored, or
\* deleted) returns absent.
C9_StoreThenGet ==
    [][/\ (ret.op = "store_context" /\ ret'.op = "get_context"
            /\ ret'.args = ret.args[1]) => ret'.value = ret.args[2]
       /\ \A input \in StoreInputs :
              (ret'.op = "store_context" /\ StoreCall(input[1], input[2])) =>
                  /\ GetContext(contexts', input[1]) = input[2]
                  /\ input[1] \in KeysOf(contexts) => Len(contexts') = Len(contexts)
                  /\ \A id \in KeysOf(contexts) \ {input[1]} :
                         GetContext(contexts', id) = GetContext(contexts, id)
       /\ (ret.op = "delete_context" /\ ret.value /\ ret'.op = "get_context"
            /\ ret'.args = ret.args) => ret'.value = Absent
       /\ (ret'.op = "get_context" /\ ret'.args \notin KeysOf(contexts')) =>
              ret'.value = Absent]_vars

\* C9 witness: the second context stored under the first key was fetched
C9_Witness ==
    /\ ret.op = "get_context"
    /\ ret.args = StoreKey(1)
    /\ ret.value = SampleContext(1, "second")
    /\ Len(contexts) >= 2

\* C10: list(L) returns min(n, L) contexts of the n stored, each of them
\* stored and none twice, and GET /memory?limit=L reports as many.
C10_ListTruncated ==
    ret.op = "list_contexts" =>
        /\ Len(ret.value) = Min(Len(contexts), ret.args)
        /\ \A i \in DOMAIN ret.value :
               \E j \in DOMAIN contexts : contexts[j].value = ret.value[i]
        /\ \A i, j \in DOMAIN ret.value : i # j => ret.value[i] # ret.value[j]
        /\ LET served == HandleList(contexts, ret.args).body
           IN  /\ served.total_contexts = Min(Len(contexts), ret.args)
               /\ Len(served.contexts) = Min(Len(contexts), ret.args)

\* C10 witness: five contexts stored, two asked for, two returned
C10_Witness ==
    /\ ret.op = "list_contexts"
    /\ ret.args = 2
    /\ Len(contexts) = 5
    /\ Len(ret.value) = 2

\* s is raw without its leading and trailing whitespace
IsTrimOf(s, raw) ==
    \E i \in 0..Len(raw) :
        /\ i + Len(s) <= Len(raw)
        /\ s = SubSeq(raw, i + 1, i + Len(s))
        /\ \A k \in 1..Len(raw) :
               (k <= i \/ k > i + Len(s)) => raw[k] \in Whitespace
        /\ s # <<>> => (s[1] \notin Whitespace /\ s[Len(s)] \notin Whitespace)

\* C11: a request whose brand_voice has 2 characters or fewer after trimming
\* is answered with a 4xx error and neither the agent nor the store is
\* touched; one with 3 or more is accepted and handled; and the brand_voice
\* of every brief built or stored is the trimmed value, non-empty.
C11_BrandVoiceTrimmed ==
    [][/\ \A voice \in RawVoices :
          \A s \in {SubSeq(voice, a, b) :
                        a \in 1..(Len(voice) + 1), b \in 0..Len(voice)} :
              (IsTrimOf(s, voice) /\ out'.op = "CampaignBrief"
                  /\ SubmitBrief(RawBrief(voice), IF clientAvail THEN WellFormed ELSE NoApi,
                                 TRUE)) =>
                  IF Len(s) <= 2
                  THEN /\ ~out'.result.ok
                       /\ http'.code \in 400..499
                       /\ nCalls' = nCalls
                       /\ contexts' = contexts
                       /\ auditLog' = auditLog
                  ELSE /\ out'.result.ok
                       /\ out'.result.value.brand_voice = s
                       /\ http'.code = 200
                       /\ nCalls' = nCalls + 1
       /\ \A i \in DOMAIN contexts' :
              LET v == contexts'[i].value.input_data.brand_voice
              IN  /\ Len(v) >= 3
                  /\ IsTrimOf(v, v)]_vars

\* C11 witness: " abc\n" was accepted and is stored as "abc", and the last
\* request, with "ab" between whitespace, was rejected
C11_Witness ==
    /\ out.op = "CampaignBrief"
    /\ out.data.brand_voice = <<" ", "a", "b", " ">>
    /\ ~out.result.ok
    /\ http.code = 422
    /\ \E i \in DOMAIN contexts :
           /\ contexts[i].value.input_data.brand_voice = <<"a", "b", "c">>
           /\ contexts[i].value.context_id = MakeContextId("CAMP_A", 0)

\* the reply is a JSON object with the five keys and values of the right shape
Parses(api) ==
    /\ ~api.raises
    /\ api.text.kind = "object"
    /\ RequiredSet \subseteq api.text.keys
    /\ api.text.valid

\* C12: every call of process_campaign_brief answers by exactly one strategy
\* and issues at most one generation call: Mock exactly when there is no
\* client (no call), Parse exactly when there is a client and the one call
\* and its parse succeed, Fallback exactly when there is a client and the call
\* or the parse failed (one call, no retry).
C12_OneStrategyOneCall ==
    Called =>
        /\ out.run.strategy \in {"Mock", "Parse", "Fallback"}
        /\ out.run.calls <= 1
        /\ out.run.strategy = "Mock" <=> ~clientAvail
        /\ out.run.strategy = "Parse" <=> (clientAvail /\ Parses(out.api))
        /\ out.run.strategy = "Fallback" <=> (clientAvail /\ ~Parses(out.api))
        /\ out.run.calls = IF clientAvail THEN 1 ELSE 0
        /\ IsFallback(out.run.result.value) <=> out.run.strategy = "Fallback"
        /\ out.run.result.value.agent_notes = GeneratedValue("agent_notes")
               <=> out.run.strategy = "Parse"

\* C12 witness: the one call raised and the Fallback response came back
C12_Witness ==
    /\ Called
    /\ clientAvail
    /\ out.api.raises
    /\ out.run.strategy = "Fallback"
    /\ out.run.calls = 1

RECURSIVE SumOver(_, _)
SumOver(f, keys) ==
    IF keys = {} THEN 0
    ELSE LET k == CHOOSE x \in keys : TRUE
         IN  f[k] + SumOver(f, keys \ {k})

SumOfCounts(counts) == SumOver(counts, DOMAIN counts)

\* C13: GET /agent/stats counts every stored context: with n contexts
\* stored, total_campaigns is n and the counts of status_breakdown and of
\* campaign_types each sum to n.
C13_StatsCountAll ==
    [][(http'.op = "get_agent_stats" /\ AgentStats) =>
           /\ http'.body.total_campaigns = Len(contexts)
           /\ SumOfCounts(http'.body.status_breakdown) = Len(contexts)
           /\ SumOfCounts(http'.body.campaign_types) = Len(contexts)]_vars

\* the context is as process_campaign built it, but for its status
Whole(context) ==
    context =
        [MakeMemoryContext(context.context_id, context.input_data,
                           context.conversation_history[1].output,
                           context.created_at)
            EXCEPT !.status = context.status]

OthersKept(context_id) ==
    /\ KeysOf(contexts) \ {context_id} \subseteq KeysOf(contexts')
    /\ \A id \in KeysOf(contexts) \ {context_id} :
           GetContext(contexts', id) = GetContext(contexts, id)

\* C14: however the requests being handled interleave, a request that
\* stores its context leaves every other id's record as it was and its own
\* id holding exactly its context; a status update or a delete of one id
\* leaves every other id's record as it was; and every stored context is at
\* all times one request's context whole, under its own id.
C14_WritesIndependent ==
    [][/\ \A i \in DOMAIN inflight :
              (http'.op = "process_campaign" /\ StoreProcess(i)) =>
                  /\ OthersKept(inflight[i].context.context_id)
                  /\ GetContext(contexts', inflight[i].context.context_id)
                         = inflight[i].context
                  /\ Len(contexts') =
                         IF inflight[i].context.context_id \in KeysOf(contexts)
                         THEN Len(contexts) ELSE Len(contexts) + 1
       /\ \A context_id \in ContextIds :
              /\ (http'.op = "delete_context" /\ DeleteMemory(context_id)) =>
                     OthersKept(context_id)
              /\ \A new_status \in NewStatuses :
                     (http'.op = "update_context_status"
                          /\ PutStatus(context_id, new_status)) =>
                         OthersKept(context_id)
       /\ \A j \in DOMAIN contexts' :
              /\ Whole(contexts'[j].value)
              /\ contexts'[j].key = contexts'[j].value.context_id]_vars

\* C14 witness: request 2 arrived while request 1 was being handled and has
\* stored its context under the id request 1 is about to write, with another
\* context
C14_Witness ==
    /\ Len(inflight) = 1
    /\ inflight[1].request = 1
    /\ inflight[1].pc = "built"
    /\ http.op = "process_campaign"
    /\ http.code = 200
    /\ http.request = 2
    /\ inflight[1].context.context_id \in KeysOf(contexts)
    /\ GetContext(contexts, inflight[1].context.context_id) # inflight[1].context

\* C15: a call of process_campaign_brief appends one audit record, for its
\* brief, when the call and the parse succeeded and the write went through,
\* and none otherwise: never on the Mock or the Fallback path.  When the
\* write fails the call still returns the parsed response as it was parsed,
\* by the Parse strategy.
C15_AuditLogBestEffort ==
    [][(out'.op = "process_campaign_brief" /\ nCalls' = nCalls + 1) =>
           LET logged == clientAvail /\ Parses(out'.api) /\ out'.logOk
           IN  /\ logged => auditLog' = Append(auditLog, LogEntry(out'.brief))
               /\ ~logged => auditLog' = auditLog
               /\ out'.run.strategy \in {"Mock", "Fallback"} => auditLog' = auditLog
               /\ (clientAvail /\ Parses(out'.api)) =>
                      /\ out'.run.strategy = "Parse"
                      /\ out'.run.result.ok
                      /\ ~IsFallback(out'.run.result.value)
                      /\ out'.run.result =
                             ParseClaudeResponse(out'.api.text, out'.brief, now)]_vars

\* C15 witness: of two calls whose replies parsed, one was logged; the last
\* one's write failed and it returned the parsed response
C15_Witness ==
    /\ Called
    /\ clientAvail
    /\ Parses(out.api)
    /\ ~out.logOk
    /\ out.run.strategy = "Parse"
    /\ out.run.result.ok
    /\ nCalls = 2
    /\ Len(auditLog) = 1

NextDay(date) ==
    IF date.day < DaysInMonth(date.year, date.month)
    THEN [date EXCEPT !.day = date.day + 1]
    ELSE IF date.month < 12
    THEN Date(date.year, date.month + 1, 1)
    ELSE Date(date.year + 1, 1, 1)

RECURSIVE AddDays(_, _)
AddDays(date, n) == IF n = 0 THEN date ELSE AddDays(NextDay(date), n - 1)

\* C16: whatever the current date, POST /mock/brief answers 200 with a brief
\* whose deadline is the calendar date 14 days after the current date.
C16_DeadlineFourteenDaysOn ==
    out.op = "create_mock_brief" =>
        /\ http.code = 200
        /\ http.body.brief.deadline = IsoFormat(AddDays(out.today, 14))

====
